---- MODULE Spec2Model ----
(***************************************************************************)
(* A model of @rocicorp/logger (src/src/logger.ts, the current version at  *)
(* lines 327-558): the OptionalLoggerImpl binder, LogContext and its       *)
(* withContext derivation, the recording sinks of the test suite, the      *)
(* console sinks (consoleLogSink, nodeConsoleLogSink, FormatLogger) with   *)
(* normalizeArgument and JSON.stringify, TeeLogSink, and flush with its    *)
(* promises.                                                               *)
(*                                                                         *)
(* JavaScript values are tagged records.  Objects live in a heap and are   *)
(* held by reference, as in the program: a Context handed to a sink or     *)
(* kept in a LogContext is a pointer to a heap object, never a copy.       *)
(***************************************************************************)
EXTENDS Integers, Sequences, FiniteSets, TLC

VARIABLES
    heap,        \* the Context objects allocated so far (a sequence of objects)
    lcs,         \* the LogContext objects constructed so far
    messages,    \* TestLogSink.messages, per recording sink
    flushCount,  \* TestLogSinkWithFlush.flushCount, per recording sink
    console,     \* the calls made on console.debug/info/warn/error
    sinks,       \* TeeLogSink.#sinks: the sub-sinks of the tee, in order
    throwing,    \* the recording sinks whose log throws after recording
    last,        \* the operation performed by the latest step
    hist,        \* history: per LogContext, what it was constructed with
    teeCalls,    \* history: the tee.log calls made, in order
    promises,    \* the promises the flush calls created, in creation order
    calls        \* history: the calls logger.X(...args) that returned, in
                 \* program order

vars == <<heap, lcs, messages, flushCount, console, sinks, throwing, last,
          hist, teeCalls, promises, calls>>

----------------------------------------------------------------------------
(* Bounds of the model.                                                    *)

MaxLogContexts == 3     \* LogContext objects alive in one run
MaxSinkCalls == 1       \* log and flush calls that reach a sink in one run
MaxTeeCalls == 2        \* tee.log calls in one run
MaxFlushCalls == 1      \* logger.flush calls in one run that tracks promises
MaxOrderedCalls == 2    \* log calls in one run that tracks their order

----------------------------------------------------------------------------
(* JavaScript values.                                                      *)

Undefined == [type |-> "undefined"]
Str(s) == [type |-> "string", str |-> s]

\* The other primitives, each with its default string form, and null.
Num(s) == [type |-> "number", str |-> s]
Bool(s) == [type |-> "boolean", str |-> s]
Sym(s) == [type |-> "symbol", str |-> s]
BigInt(s) == [type |-> "bigint", str |-> s]
Null == [type |-> "object", class |-> "null"]

\* Message arguments that are objects: a plain object (its own enumerable
\* properties in order), an array, an Error (cause is <<>> when the Error
\* has no cause property, <<v>> when it has one), a function, and the
\* reference an object holds to an object that contains it (a cycle).
Obj(props) == [type |-> "object", class |-> "Object", props |-> props]
Arr(items) == [type |-> "object", class |-> "Array", items |-> items]
Err(name, message, stack, cause) ==
    [type |-> "object", class |-> "Error", name |-> name,
     message |-> message, stack |-> stack, cause |-> cause]
Circular == [type |-> "object", class |-> "Circular"]
Fn == [type |-> "function"]

\* The default string form of a value, as a template literal `${v}` takes it
\* (ToString): the text of a primitive, "null", and Object.prototype.toString
\* for a plain object.  ToString of a Symbol throws a TypeError.
TemplateStringThrows(v) == v.type = "symbol"
TemplateString(v) ==
    CASE v.type = "undefined" -> "undefined"
      [] v.type \in {"string", "number", "boolean", "bigint"} -> v.str
      [] v.type = "object" /\ v.class = "null" -> "null"
      [] v.type = "object" /\ v.class = "Object" -> "[object Object]"

\* "typeof v"
typeOf(v) == v.type

\* A reference to a heap object, or no object at all (the value undefined).
NoRef == <<>>
Ref(n) == <<n>>
Deref(h, r) == IF r = NoRef THEN NoRef ELSE <<h[r[1]]>>

LogLevel == {"error", "warn", "info", "debug"}

\* export type Context = {[key: string]: unknown | undefined}
\* An object is the sequence of its own enumerable properties in the order
\* Object.entries and the spread operator visit them: the keys that are array
\* indices first, in ascending numeric order, then the other string keys in
\* the order they were created.
Digits == <<"0", "1", "2", "3", "4", "5", "6", "7", "8", "9">>
IsArrayIndex(k) == \E n \in DOMAIN Digits : Digits[n] = k
ToIndex(k) == (CHOOSE n \in DOMAIN Digits : Digits[n] = k) - 1

HasOwnProperty(obj, k) == \E i \in DOMAIN obj : obj[i].key = k

\* Mutant of CreateDataProperty: an existing key is deleted and added again
\* (delete obj[k]; obj[k] = v), which moves it behind the other keys.
CreateDataProperty_DeleteFirst(obj, k, v) ==
    Append(SelectSeq(obj, LAMBDA p : p.key # k), [key |-> k, value |-> v])

\* CreateDataProperty(obj, k, v): an existing key keeps its place and takes
\* the new value; a new key goes where the property order puts it.
CreateDataProperty(obj, k, v) ==
    LET e == [key |-> k, value |-> v] IN
    IF HasOwnProperty(obj, k)
    THEN [i \in DOMAIN obj |-> IF obj[i].key = k THEN e ELSE obj[i]]
    ELSE IF IsArrayIndex(k)
    THEN LET n == Cardinality({i \in DOMAIN obj :
                     /\ IsArrayIndex(obj[i].key)
                     /\ ToIndex(obj[i].key) < ToIndex(k)})
         IN SubSeq(obj, 1, n) \o <<e>> \o SubSeq(obj, n + 1, Len(obj))
    ELSE Append(obj, e)

\* The spread of an object (or of undefined) into an object literal.
RECURSIVE CopyDataProperties(_, _)
CopyDataProperties(target, source) ==
    IF source = <<>> THEN target
    ELSE CopyDataProperties(
             CreateDataProperty(target, Head(source).key, Head(source).value),
             Tail(source))

\* Object.entries(context ?? {})
ObjectEntries(h, r) == IF r = NoRef THEN <<>> ELSE h[r[1]]

----------------------------------------------------------------------------
(* JSON.stringify(v, errorReplacer) and JSON.parse, on texts that are      *)
(* strings of characters.                                                  *)

\* Mutant of errorReplacer: the projection has no cause
\* ({name, message, stack} only).
errorReplacer_NoCause(key, v) ==
    IF v.type = "object" /\ v.class = "Error"
    THEN Obj(<<[key |-> "name", value |-> v.name],
               [key |-> "message", value |-> v.message],
               [key |-> "stack", value |-> v.stack]>>)
    ELSE v

\* function errorReplacer(_key, v): an Error becomes the object literal
\* {name, message, stack, ...('cause' in v ? {cause: v.cause} : null)}.
errorReplacer(key, v) ==
    IF v.type = "object" /\ v.class = "Error"
    THEN Obj(CopyDataProperties(
                 <<[key |-> "name", value |-> v.name],
                   [key |-> "message", value |-> v.message],
                   [key |-> "stack", value |-> v.stack]>>,
                 IF v.cause # <<>>
                 THEN <<[key |-> "cause", value |-> v.cause[1]]>>
                 ELSE <<>>))
    ELSE v

\* QuoteJSONString: the quote, the backslash and the newline are escaped.
RECURSIVE EscapeJSONString(_)
EscapeJSONString(str) ==
    IF str = "" THEN ""
    ELSE LET c == Head(str)
             e == CASE c = "\"" -> "\\\""
                    [] c = "\\" -> "\\\\"
                    [] c = "\n" -> "\\n"
                    [] OTHER -> c
         IN e \o EscapeJSONString(Tail(str))

QuoteJSONString(str) == "\"" \o EscapeJSONString(str) \o "\""

\* The outcome of serializing one value: a text, no text at all (the value
\* is undefined, a function or a symbol), or a TypeError thrown.
Text(t) == [threw |-> FALSE, undef |-> FALSE, text |-> t]
NoText == [threw |-> FALSE, undef |-> TRUE, text |-> ""]
ThrewTypeError == [threw |-> TRUE, undef |-> FALSE, text |-> ""]

\* SerializeJSONProperty, SerializeJSONObject and SerializeJSONArray of
\* JSON.stringify: the replacer is called on every value, at every depth,
\* before the value is serialized.  A BigInt and a cycle throw a TypeError;
\* a property without text is left out of an object and is null in an
\* array.
RECURSIVE SerializeJSONProperty(_, _)
RECURSIVE SerializeJSONObject(_, _)
RECURSIVE SerializeJSONArray(_, _)

\* SerializeJSONProperty, after the replacer was called.
SerializeReplaced(value) ==
    CASE value.type \in {"undefined", "function", "symbol"} -> NoText
      [] value.type = "bigint" -> ThrewTypeError
      [] value.type = "string" -> Text(QuoteJSONString(value.str))
      [] value.type \in {"number", "boolean"} -> Text(value.str)
      [] value.type = "object" ->
            CASE value.class = "null" -> Text("null")
              [] value.class = "Circular" -> ThrewTypeError
              [] value.class = "Array" -> SerializeJSONArray(value.items, "")
              [] value.class = "Object" -> SerializeJSONObject(value.props, "")

SerializeJSONProperty(key, holderValue) ==
    SerializeReplaced(errorReplacer(key, holderValue))

\* The members (or elements) written so far, and one more.
JoinJSON(partial, more) ==
    IF partial = "" THEN more ELSE partial \o "," \o more

\* SerializeJSONObject, after the property P of the object was serialized
\* with outcome r.
SerializeJSONMember(rest, partial, P, r) ==
    IF r.threw THEN ThrewTypeError
    ELSE IF r.undef THEN SerializeJSONObject(rest, partial)
    ELSE SerializeJSONObject(rest,
             JoinJSON(partial, QuoteJSONString(P) \o ":" \o r.text))

SerializeJSONObject(props, partial) ==
    IF props = <<>> THEN Text("{" \o partial \o "}")
    ELSE SerializeJSONMember(Tail(props), partial, Head(props).key,
             SerializeJSONProperty(Head(props).key, Head(props).value))

\* SerializeJSONArray, after an element of the array was serialized with
\* outcome r.
SerializeJSONElement(rest, partial, r) ==
    IF r.threw THEN ThrewTypeError
    ELSE SerializeJSONArray(rest,
             JoinJSON(partial, IF r.undef THEN "null" ELSE r.text))

SerializeJSONArray(items, partial) ==
    IF items = <<>> THEN Text("[" \o partial \o "]")
    ELSE SerializeJSONElement(Tail(items), partial,
             SerializeJSONProperty("0", Head(items)))

\* What a call that serialized to r returns to its caller: a string,
\* undefined, or a TypeError; spy is the calls of JSON.stringify made (what a
\* spy on JSON.stringify sees).
StringifyCompletion(v, r) ==
    [threw |-> r.threw,
     value |-> IF r.threw \/ r.undef THEN Undefined ELSE Str(r.text),
     spy |-> <<v>>]

\* JSON.stringify(v, errorReplacer)
JSONstringify(v) == StringifyCompletion(v, SerializeJSONProperty("", v))

\* JSON.parse of a text without white space, as JSON.stringify writes it.
\* Each parser takes the text that is left and gives the value it read and
\* the text after it.
NumberChars == {"-", "+", ".", "e", "E", "0", "1", "2", "3", "4", "5", "6",
                "7", "8", "9"}

RECURSIVE ParseString(_, _)
ParseString(text, str) ==
    LET c == Head(text) IN
    IF c = "\"" THEN [value |-> str, rest |-> Tail(text)]
    ELSE IF c = "\\"
    THEN LET d == Head(Tail(text)) IN
         ParseString(Tail(Tail(text)),
                     str \o (IF d = "n" THEN "\n" ELSE d))
    ELSE ParseString(Tail(text), str \o c)

RECURSIVE ParseNumber(_, _)
ParseNumber(text, str) ==
    IF text # "" /\ Head(text) \in NumberChars
    THEN ParseNumber(Tail(text), str \o Head(text))
    ELSE [value |-> str, rest |-> text]

RECURSIVE ParseValue(_)
RECURSIVE ParseMembers(_, _)
RECURSIVE ParseElements(_, _)
ParseValue(text) ==
    LET c == Head(text) IN
    CASE c = "{" ->
            IF Head(Tail(text)) = "}"
            THEN [value |-> Obj(<<>>), rest |-> Tail(Tail(text))]
            ELSE ParseMembers(Tail(text), <<>>)
      [] c = "[" ->
            IF Head(Tail(text)) = "]"
            THEN [value |-> Arr(<<>>), rest |-> Tail(Tail(text))]
            ELSE ParseElements(Tail(text), <<>>)
      [] c = "\"" ->
            LET r == ParseString(Tail(text), "") IN
            [value |-> Str(r.value), rest |-> r.rest]
      [] c = "t" -> [value |-> Bool("true"), rest |-> SubSeq(text, 5, Len(text))]
      [] c = "f" -> [value |-> Bool("false"), rest |-> SubSeq(text, 6, Len(text))]
      [] c = "n" -> [value |-> Null, rest |-> SubSeq(text, 5, Len(text))]
      [] OTHER ->
            LET r == ParseNumber(text, "") IN
            [value |-> Num(r.value), rest |-> r.rest]

ParseMembers(text, props) ==
    LET k == ParseString(Tail(text), "")
        v == ParseValue(Tail(k.rest))
        obj == CreateDataProperty(props, k.value, v.value)
    IN IF Head(v.rest) = ","
       THEN ParseMembers(Tail(v.rest), obj)
       ELSE [value |-> Obj(obj), rest |-> Tail(v.rest)]

ParseElements(text, items) ==
    LET v == ParseValue(text)
        arr == Append(items, v.value)
    IN IF Head(v.rest) = ","
       THEN ParseElements(Tail(v.rest), arr)
       ELSE [value |-> Arr(arr), rest |-> Tail(v.rest)]

JSONparse(text) == ParseValue(text).value

----------------------------------------------------------------------------
(* Sinks.                                                                  *)

\* The recording sinks of the test suite: l1 and l3 are
\* TestLogSinkWithFlush, l2 is a TestLogSink.
TestSinks == {"l1", "l2", "l3"}
WithFlush == {"l1", "l3"}
ConsoleSinks == {"consoleLogSink"}
NodeConsoleSinks == {"nodeConsoleLogSink"}

\* The FormatLoggers of the test suite: new FormatLogger((_, ...args) => args)
\* and new FormatLogger((_, ...args) => ['foo'].concat(args)).
FormatLoggers == {"FormatLogger(nop)", "FormatLogger(foo)"}
ConsoleFamily == ConsoleSinks \cup NodeConsoleSinks \cup FormatLoggers

\* function stringified(context: Context | undefined): unknown[]
\* The loop over Object.entries ends at the first entry whose template
\* literal throws; the exception leaves stringified.
RECURSIVE stringifiedEntries(_)
stringifiedEntries(entries) ==
    IF entries = <<>> THEN <<>>
    ELSE LET k == Head(entries).key
             v == Head(entries).value
         IN IF v = Undefined
            THEN <<Str(k)>> \o stringifiedEntries(Tail(entries))
            ELSE IF TemplateStringThrows(v) THEN <<>>
            ELSE <<Str(k \o "=" \o TemplateString(v))>>
                     \o stringifiedEntries(Tail(entries))

stringified(h, context) == stringifiedEntries(ObjectEntries(h, context))

\* Whether stringified(context) throws.
stringifiedThrows(h, context) ==
    \E i \in DOMAIN ObjectEntries(h, context) :
        /\ ObjectEntries(h, context)[i].value # Undefined
        /\ TemplateStringThrows(ObjectEntries(h, context)[i].value)

\* A log that threw before it wrote anything.
ThrewBeforeWrite(con) ==
    [console |-> con, threw |-> TRUE, spy |-> <<>>, format |-> <<>>]

\* Mutant of normalizeArgument: every argument goes through JSON.stringify.
normalizeArgument_AlwaysStringify(v) == JSONstringify(v)

\* function normalizeArgument(v): the primitive types and null are returned
\* as they are, everything else is JSON.stringify(v, errorReplacer).  The
\* result is the value returned, or that the call threw, and the calls of
\* JSON.stringify it made (what a spy on JSON.stringify sees).
normalizeArgument(v) ==
    IF typeOf(v) \in {"string", "number", "boolean", "undefined", "symbol",
                      "bigint"}
    THEN [threw |-> FALSE, value |-> v, spy |-> <<>>]
    ELSE IF typeOf(v) = "object" /\ v = Null
    THEN [threw |-> FALSE, value |-> Null, spy |-> <<>>]
    ELSE JSONstringify(v)

\* args.map(normalizeArgument): the arguments are normalized in order; an
\* exception ends the map.
RECURSIVE MapNormalizeFrom(_, _, _)

\* The map, after normalizeArgument ended with r on an argument.
MapNormalizeNext(rest, values, spy, r) ==
    IF r.threw
    THEN [threw |-> TRUE, values |-> values, spy |-> spy \o r.spy]
    ELSE MapNormalizeFrom(rest, Append(values, r.value), spy \o r.spy)

MapNormalizeFrom(args, values, spy) ==
    IF args = <<>> THEN [threw |-> FALSE, values |-> values, spy |-> spy]
    ELSE MapNormalizeNext(Tail(args), values, spy,
                          normalizeArgument(Head(args)))

MapNormalize(args) == MapNormalizeFrom(args, <<>>, <<>>)

\* console[level](...tokens)
ConsoleWrite(con, level, tokens) == [con EXCEPT ![level] = Append(@, tokens)]

\* TestLogSink.log: this.messages.push([level, context, args])
TestLogSinkLog(msgs, sink, level, context, args) ==
    [msgs EXCEPT ![sink] =
        Append(@, [level |-> level, context |-> context, args |-> args])]

\* console[level](...tokens, ...args.map(normalizeArgument)), where n is
\* what the map gave.  The arguments of console[level] are evaluated before
\* it is called: when normalizeArgument throws, nothing is written and the
\* exception leaves log.  The result is the console, whether log threw, the
\* calls of JSON.stringify and the calls of a format function.
ConsoleWriteNormalized(con, level, tokens, n) ==
    [console |-> IF n.threw THEN con
                 ELSE ConsoleWrite(con, level, tokens \o n.values),
     threw |-> n.threw, spy |-> n.spy, format |-> <<>>]

\* consoleLogSink.log:
\*   console[level](...stringified(context), ...args.map(normalizeArgument))
consoleLogSinkLog(con, h, level, context, args) ==
    IF stringifiedThrows(h, context) THEN ThrewBeforeWrite(con)
    ELSE ConsoleWriteNormalized(con, level, stringified(h, context),
                                MapNormalize(args))

\* export const logLevelPrefix
logLevelPrefix ==
    [error |-> "ERR", warn |-> "WRN", info |-> "INF", debug |-> "DBG"]

\* nodeConsoleLogSink.log:
\*   console[level](logLevelPrefix[level], ...stringified(context),
\*                  ...args.map(normalizeArgument))
nodeConsoleLogSinkLog(con, h, level, context, args) ==
    IF stringifiedThrows(h, context) THEN ThrewBeforeWrite(con)
    ELSE ConsoleWriteNormalized(con, level,
             <<Str(logLevelPrefix[level])>> \o stringified(h, context),
             MapNormalize(args))

\* The format functions of the FormatLoggers.
Format(sink, level, args) ==
    IF sink = "FormatLogger(nop)" THEN args ELSE <<Str("foo")>> \o args

\* Mutant of FormatLoggerLog: the arguments are normalized before they are
\* formatted, as the other console sinks do.
FormatLoggerLog_Normalizes(sink, con, h, level, context, args) ==
    LET n == MapNormalize(args)
        formatArgs == stringified(h, context) \o n.values
    IN [console |-> IF n.threw THEN con
                    ELSE ConsoleWrite(con, level,
                                      Format(sink, level, formatArgs)),
        threw |-> n.threw, spy |-> n.spy,
        format |-> <<[level |-> level, args |-> formatArgs]>>]

\* FormatLogger.log:
\*   console[level](...this.#format(level, ...stringified(context), ...args))
FormatLoggerWrite(sink, con, level, formatArgs) ==
    [console |-> ConsoleWrite(con, level, Format(sink, level, formatArgs)),
     threw |-> FALSE, spy |-> <<>>,
     format |-> <<[level |-> level, args |-> formatArgs]>>]

FormatLoggerLog(sink, con, h, level, context, args) ==
    IF stringifiedThrows(h, context) THEN ThrewBeforeWrite(con)
    ELSE FormatLoggerWrite(sink, con, level, stringified(h, context) \o args)

\* log of a sink that writes to the console, dispatched on the sink object.
ConsoleFamilyLog(sink, con, h, level, context, args) ==
    IF sink \in ConsoleSinks
    THEN consoleLogSinkLog(con, h, level, context, args)
    ELSE IF sink \in NodeConsoleSinks
    THEN nodeConsoleLogSinkLog(con, h, level, context, args)
    ELSE FormatLoggerLog(sink, con, h, level, context, args)

\* Mutant of TeeLoop: the sub-sinks are visited from the last to the first.
TeeLoop_LastFirst(msgs, rest, bad, level, context, args) ==
    [messages |-> [s \in DOMAIN msgs |->
                      IF \E i \in DOMAIN rest : rest[i] = s
                      THEN Append(msgs[s], [level |-> level,
                                            context |-> context,
                                            args |-> args])
                      ELSE msgs[s]],
     threw |-> \E i \in DOMAIN rest : rest[i] \in bad,
     order |-> [i \in DOMAIN rest |-> rest[Len(rest) + 1 - i]]]

\* The loop's result after logger.log returned and the rest of the loop
\* ended as r.
AfterLog(logger, r) == [r EXCEPT !.order = <<logger>> \o @]

\* TeeLogSink.log: for (const logger of this.#sinks) logger.log(...).  A
\* sub-sink that throws ends the loop: the exception leaves log.  The result
\* is the sub-sinks' messages, whether log threw, and the sub-sinks whose
\* log was called, in the order of the calls.
RECURSIVE TeeLoop(_, _, _, _, _, _)
TeeLoop(msgs, rest, bad, level, context, args) ==
    IF rest = <<>> THEN [messages |-> msgs, threw |-> FALSE, order |-> <<>>]
    ELSE LET logger == Head(rest)
             got == TestLogSinkLog(msgs, logger, level, context, args)
         IN IF logger \in bad
            THEN [messages |-> got, threw |-> TRUE, order |-> <<logger>>]
            ELSE AfterLog(logger,
                     TeeLoop(got, Tail(rest), bad, level, context, args))

TeeLogSinkLog(msgs, level, context, args) ==
    TeeLoop(msgs, sinks, throwing, level, context, args)

\* Mutant of SinkLog: the call is put in a queue and log returns; no sink
\* has received it when the logger's function returns.
SinkLog_Queued(sink, level, context, args) ==
    UNCHANGED <<messages, console>>

\* logSink.log(level, context, ...args), dispatched on the sink object.
SinkLog(sink, level, context, args) ==
    IF sink \in ConsoleFamily
    THEN /\ console' = ConsoleFamilyLog(sink, console, heap, level, context,
                                        args).console
         /\ UNCHANGED messages
    ELSE /\ messages' = TestLogSinkLog(messages, sink, level, context, args)
         /\ UNCHANGED console

\* How that call of log ended: whether it threw, and the calls of
\* JSON.stringify and of a format function it made.
SinkLogOutcome(sink, level, context, args) ==
    IF sink \in ConsoleFamily
    THEN ConsoleFamilyLog(sink, console, heap, level, context, args)
    ELSE [console |-> console, threw |-> FALSE, spy |-> <<>>,
          format |-> <<>>]

\* logSink.flush?.(): TestLogSinkWithFlush.flush is this.flushCount++; the
\* other sinks define no flush.
SinkFlush(sink) ==
    IF sink \in WithFlush
    THEN flushCount' = [flushCount EXCEPT ![sink] = @ + 1]
    ELSE UNCHANGED flushCount

----------------------------------------------------------------------------
(* OptionalLoggerImpl and LogContext.                                      *)

\* Mutant of impl: the closure forgets the Context (logSink.log(level,
\* undefined, ...args)).
impl_DropContext(logSink, context, level) ==
    <<[sink |-> logSink, level |-> level, context |-> <<>>]>>

\* A slot of a logger: undefined, or the closure impl(level) that captured
\* logSink and context.
NoSlot == <<>>
impl(logSink, context, level) ==
    <<[sink |-> logSink, level |-> level, context |-> context]>>

\* Mutant of SlotsAssigned: every case ends with a break.
SlotsAssigned_NoFallthrough(level) == {level}

\* Mutant of SlotsAssigned: the switch is entered at its first case whatever
\* the level, so every slot holds a function.
SlotsAssigned_All(level) == {"debug", "info", "warn", "error"}

\* switch (level) { case 'debug': ... case 'info': ... case 'warn': ...
\* case 'error': ... } with every case falling through to the next: the
\* slots assigned are those of the matching case and of the cases after it.
SwitchCases == <<"debug", "info", "warn", "error">>
SlotsAssigned(level) ==
    {SwitchCases[j] : j \in {i \in DOMAIN SwitchCases :
        \E e \in DOMAIN SwitchCases : SwitchCases[e] = level /\ e <= i}}

\* A parameter with a default value takes it when the argument is undefined
\* (levels and sinks are names in this model, and so is their undefined).
Omitted == "undefined"
DefaultTo(arg, dflt) == IF arg = Omitted THEN dflt ELSE arg

\* constructor(logSink: LogSink, level: LogLevel = 'info', context?: Context)
OptionalLoggerImpl(logSink, levelArg, context) ==
    LET level == DefaultTo(levelArg, "info")
        slot(X) == IF X \in SlotsAssigned(level)
                   THEN impl(logSink, context, X) ELSE NoSlot
    IN [debug |-> slot("debug"),
        info  |-> slot("info"),
        warn  |-> slot("warn"),
        error |-> slot("error"),
        flush |-> [sink |-> logSink]]

\* Mutant of LogContext: super(logSink, level), the Context not handed on to
\* OptionalLoggerImpl.
LogContext_SuperWithoutContext(levelArg, context, sinkArg) ==
    LET level == DefaultTo(levelArg, "info")
        logSink == DefaultTo(sinkArg, "consoleLogSink")
        super == OptionalLoggerImpl(logSink, level, NoRef)
    IN [debug |-> super.debug, info |-> super.info, warn |-> super.warn,
        error |-> super.error, flush |-> super.flush,
        p_level |-> level, p_logSink |-> logSink, p_context |-> context]

\* Mutant of LogContext: the default level is debug (level = 'debug').
LogContext_DefaultDebug(levelArg, context, sinkArg) ==
    LET level == DefaultTo(levelArg, "debug")
        logSink == DefaultTo(sinkArg, "consoleLogSink")
        super == OptionalLoggerImpl(logSink, level, context)
    IN [debug |-> super.debug, info |-> super.info, warn |-> super.warn,
        error |-> super.error, flush |-> super.flush,
        p_level |-> level, p_logSink |-> logSink, p_context |-> context]

\* constructor(level = 'info', context?, logSink = consoleLogSink)
LogContext(levelArg, context, sinkArg) ==
    LET level == DefaultTo(levelArg, "info")
        logSink == DefaultTo(sinkArg, "consoleLogSink")
        super == OptionalLoggerImpl(logSink, level, context)
    IN [debug |-> super.debug, info |-> super.info, warn |-> super.warn,
        error |-> super.error, flush |-> super.flush,
        p_level |-> level, p_logSink |-> logSink, p_context |-> context]

\* The level slots of a logger that hold a function.
SlotSet(logger) == {X \in LogLevel : logger[X] # NoSlot}

\* Mutant of withContextCtx: {[key]: value, ...this.#context}, the spread
\* after the new key, so that the receiver's value of a key wins.
withContextCtx_LeftBiased(h, this, key, value) ==
    CopyDataProperties(<<[key |-> key, value |-> value]>>,
                       ObjectEntries(h, this.p_context))

\* Mutant of withContextCtx: the spread takes the most recently created
\* Context object instead of the receiver's own.
withContextCtx_FromLatest(h, this, key, value) ==
    CreateDataProperty(
        CopyDataProperties(<<>>,
            ObjectEntries(h, IF h = <<>> THEN this.p_context
                             ELSE Ref(Len(h)))), key, value)

\* const ctx = {...this.#context, [key]: value}
withContextCtx(h, this, key, value) ==
    CreateDataProperty(
        CopyDataProperties(<<>>, ObjectEntries(h, this.p_context)), key, value)

\* Mutant of withContextNew: new LogContext(undefined, ctx, this.#logSink),
\* the level left to its default.
withContextNew_DefaultLevel(h, this, key, value) ==
    LogContext(Omitted, Ref(Len(h) + 1), this.p_logSink)

\* Mutant of withContextNew: new LogContext(this.#level, ctx), the sink left
\* to its default.
withContextNew_DefaultSink(h, this, key, value) ==
    LogContext(this.p_level, Ref(Len(h) + 1), Omitted)

\* return new LogContext(this.#level, ctx, this.#logSink), ctx being a new
\* object, allocated at the end of the heap.
withContextNew(h, this, key, value) ==
    LogContext(this.p_level, Ref(Len(h) + 1), this.p_logSink)

\* Mutant of withContextHeap: the new key is also written into the
\* receiver's own Context object.
withContextHeap_InPlace(h, this, key, value) ==
    LET ctx == withContextCtx(h, this, key, value) IN
    IF this.p_context = NoRef THEN Append(h, ctx)
    ELSE Append([h EXCEPT ![this.p_context[1]] = ctx], ctx)

withContextHeap(h, this, key, value) ==
    Append(h, withContextCtx(h, this, key, value))

----------------------------------------------------------------------------
(* The inputs of the model.                                                *)

\* The arguments of withContext(key, value?): an omitted value is undefined.
WithContextArgs ==
    {<<"name", Undefined>>, <<"name", Str("bob")>>, <<"1", Str("v")>>}

\* The message arguments of a log call.
ArgLists == {<<Str("m1"), Str("m2")>>}

\* The Context objects a caller gives to a constructor.
CallerContexts == {<<[key |-> "name", value |-> Str("alice")]>>}

NoOp == [op |-> "none", lc |-> 0, level |-> "none", key |-> "none",
         value |-> Undefined, context |-> NoRef, args |-> <<>>,
         outcome |-> "none", promise |-> 0, spy |-> <<>>, format |-> <<>>,
         order |-> <<>>]

RECURSIVE SumLen(_, _)
SumLen(f, S) ==
    IF S = {} THEN 0
    ELSE LET s == CHOOSE t \in S : TRUE IN Len(f[s]) + SumLen(f, S \ {s})

RECURSIVE SumOf(_, _)
SumOf(f, S) ==
    IF S = {} THEN 0
    ELSE LET s == CHOOSE t \in S : TRUE IN f[s] + SumOf(f, S \ {s})

\* The calls the sinks have received: log calls and flush calls.
TotalSinkCalls ==
    SumLen(messages, TestSinks) + SumLen(console, LogLevel)
        + SumOf(flushCount, TestSinks)

----------------------------------------------------------------------------
(* Init: one root LogContext, constructed by the caller with a level (or   *)
(* none), a Context (or none) and a sink.                                  *)

\* What a LogContext was constructed with: the content of its Context, its
\* slots, and the withContext arguments that led to it from the root.
Born(h, logger, adds) ==
    [context |-> Deref(h, logger.p_context), slots |-> SlotSet(logger),
     adds |-> adds]

InitFrom(rootSinks, levelArgs, contexts) ==
    /\ \E ctx \in {NoRef} \cup {Ref(1)} :
       \E levelArg \in levelArgs :
       \E sinkArg \in rootSinks :
       \E obj \in contexts :
          /\ heap = IF ctx = NoRef THEN <<>> ELSE <<obj>>
          /\ lcs = <<LogContext(levelArg, ctx, sinkArg)>>
          /\ hist = <<Born(heap, lcs[1], <<>>)>>
    /\ messages = [s \in TestSinks |-> <<>>]
    /\ flushCount = [s \in TestSinks |-> 0]
    /\ console = [l \in LogLevel |-> <<>>]
    /\ sinks = <<>>
    /\ throwing = {}
    /\ last = NoOp
    /\ teeCalls = <<>>
    /\ promises = <<>>
    /\ calls = <<>>

InitWithLevels(rootSinks, levelArgs) ==
    InitFrom(rootSinks, levelArgs, CallerContexts)

InitWith(rootSinks) == InitWithLevels(rootSinks, LogLevel \cup {Omitted})

\* new LogContext(level, context, sink) with a recording sink
Init == InitWith({"l1", "l2"})

\* new LogContext(level, context) and new LogContext(level, context,
\* consoleLogSink): the console sink
ConsoleInit == InitWith({Omitted, "consoleLogSink"})

\* lc.withContext(key, value)
WithContext(l, key, value) ==
    /\ Len(lcs) < MaxLogContexts
    /\ heap' = withContextHeap(heap, lcs[l], key, value)
    /\ lcs' = Append(lcs, withContextNew(heap, lcs[l], key, value))
    /\ last' = [NoOp EXCEPT !.op = "withContext", !.lc = l, !.key = key,
                            !.value = value]
    /\ hist' = Append(hist, Born(heap', lcs'[Len(lcs')],
                                 Append(hist[l].adds, <<key, value>>)))
    /\ UNCHANGED <<messages, flushCount, console, sinks, throwing, teeCalls,
                   promises, calls>>

\* The call site logger.X?.(...args) of the README: when the slot is
\* undefined the call is skipped and its arguments are not evaluated;
\* otherwise the arguments are evaluated, which may throw, and then the
\* slot's function is called.
CallOutcome(logger, X, argsThrow) ==
    IF logger[X] = NoSlot THEN "skipped"
    ELSE IF argsThrow THEN "argsThrew"
    ELSE "called"

\* The record of a call of slot X of logger l whose sink.log ended as r.
CallRecord(l, X, args, r) ==
    [NoOp EXCEPT !.op = "call", !.lc = l, !.level = X, !.args = args,
                 !.outcome = IF r.threw THEN "threw" ELSE "called",
                 !.spy = r.spy, !.format = r.format]

\* The call logger.X?.(...args) on LogContext l, while fewer than budget
\* sink calls have been made: the slot's function runs logSink.log and
\* returns when it has returned, or throws what it threw.
CallWithin(l, X, args, budget) ==
    LET slot == lcs[l][X] IN
    /\ CallOutcome(lcs[l], X, FALSE) = "called"
    /\ TotalSinkCalls < budget
    /\ SinkLog(slot[1].sink, slot[1].level, slot[1].context, args)
    /\ last' = CallRecord(l, X, args,
                          SinkLogOutcome(slot[1].sink, slot[1].level,
                                         slot[1].context, args))
    /\ calls' = IF last'.outcome = "called"
                THEN Append(calls, [lc |-> l, level |-> X, args |-> args])
                ELSE calls
    /\ UNCHANGED <<heap, lcs, flushCount, sinks, throwing, hist, teeCalls,
                   promises>>

ConditionalCall(l, X, args) == CallWithin(l, X, args, MaxSinkCalls)

\* A conditional call that is skipped, or whose arguments throw, reaches no
\* logger code and changes nothing.
CallNotMade ==
    /\ (\E l \in DOMAIN lcs : \E X \in LogLevel : \E argsThrow \in BOOLEAN :
           CallOutcome(lcs[l], X, argsThrow) # "called") = TRUE
    /\ UNCHANGED vars

\* lc.flush(): () => logSink.flush?.() ?? Promise.resolve()
Flush(l) ==
    LET sink == lcs[l].flush.sink IN
    /\ TotalSinkCalls < MaxSinkCalls
    /\ SinkFlush(sink)
    /\ last' = [NoOp EXCEPT !.op = "flush", !.lc = l]
    /\ UNCHANGED <<heap, lcs, messages, console, sinks, throwing, hist,
                   teeCalls, promises, calls>>

Next ==
    \/ \E l \in DOMAIN lcs : \E kv \in WithContextArgs :
          WithContext(l, kv[1], kv[2])
    \/ \E l \in DOMAIN lcs : \E X \in LogLevel : \E args \in ArgLists :
          ConditionalCall(l, X, args)
    \/ CallNotMade
    \/ \E l \in DOMAIN lcs : Flush(l)

\* LogContexts on the recording sinks of the test suite.
Spec == Init /\ [][Next]_vars

\* LogContexts on the console sink.
ConsoleSpec == ConsoleInit /\ [][Next]_vars

\* A caller that is not type-checked can give the constructor any string as
\* the level: new LogContext('verbose', context, sink).
UnknownLevels == {"verbose"}
MisuseInit ==
    InitWithLevels({"l1", "consoleLogSink"},
                   LogLevel \cup {Omitted} \cup UnknownLevels)

MisuseSpec == MisuseInit /\ [][Next]_vars

----------------------------------------------------------------------------
(* TeeLogSink: new TeeLogSink(sinks) over recording sinks, some of which   *)
(* have a log that throws, and calls of tee.log(level, context, ...args).  *)

\* The lists of distinct recording sinks.
SinkLists ==
    {<<>>} \cup {<<a>> : a \in TestSinks}
        \cup {<<a, b>> : <<a, b>> \in
                 {p \in TestSinks \X TestSinks : p[1] # p[2]}}
        \cup {<<a, b, c>> : <<a, b, c>> \in
                 {p \in TestSinks \X TestSinks \X TestSinks :
                      p[1] # p[2] /\ p[1] # p[3] /\ p[2] # p[3]}}

TeeInit ==
    /\ heap = <<<<[key |-> "foo", value |-> Str("bar")]>>>>
    /\ lcs = <<>>
    /\ hist = <<>>
    /\ messages = [s \in TestSinks |-> <<>>]
    /\ flushCount = [s \in TestSinks |-> 0]
    /\ console = [l \in LogLevel |-> <<>>]
    /\ sinks \in SinkLists
    /\ throwing \in SUBSET TestSinks
    /\ last = NoOp
    /\ teeCalls = <<>>
    /\ promises = <<>>
    /\ calls = <<>>

\* tee.log(level, context, ...args)
TeeLog(level, context, args) ==
    LET r == TeeLogSinkLog(messages, level, context, args) IN
    /\ Len(teeCalls) < MaxTeeCalls
    /\ messages' = r.messages
    /\ teeCalls' = Append(teeCalls,
           [level |-> level, context |-> context, args |-> args])
    /\ last' = [NoOp EXCEPT !.op = "tee.log", !.level = level,
                            !.context = context, !.args = args,
                            !.outcome = IF r.threw THEN "threw"
                                        ELSE "returned",
                            !.order = r.order]
    /\ UNCHANGED <<heap, lcs, hist, flushCount, console, sinks, throwing,
                   promises, calls>>

TeeNext ==
    \E level \in LogLevel : \E context \in {NoRef, Ref(1)} :
    \E args \in ArgLists :
        TeeLog(level, context, args)

TeeSpec == TeeInit /\ [][TeeNext]_vars

----------------------------------------------------------------------------
(* The sinks that write to the console: a logger on consoleLogSink, on     *)
(* nodeConsoleLogSink or on a FormatLogger, called with message arguments  *)
(* of every type.                                                          *)

\* new TypeError('b'), new Error('a', {cause: new TypeError('b')}) and an
\* Error whose cause is the latter.
ErrorB ==
    Err(Str("TypeError"), Str("b"), Str("TypeError: b\n    at f"), <<>>)
ErrorA ==
    Err(Str("Error"), Str("a"), Str("Error: a\n    at g"), <<ErrorB>>)
ErrorC ==
    Err(Str("Error"), Str("c"), Str("Error: c\n    at h"), <<ErrorA>>)

\* The message arguments of a log call on a console sink: the arguments of
\* the test suite, the primitives, Errors with a chain of causes, an object
\* that holds itself, an object with a BigInt field, a function, and an
\* object with a quote in a string, an undefined field and a sparse array.
SinkArgLists ==
    {<<Str("a"), Bool("false"), Num("123"),
       Obj(<<[key |-> "b", value |-> Num("1")]>>), Arr(<<Num("2"), Num("3")>>)>>,
     <<Null, Undefined, Sym("Symbol(s)"), BigInt("1")>>,
     <<ErrorB>>,
     <<ErrorA>>,
     <<ErrorC>>,
     <<Str("m"), Obj(<<[key |-> "self", value |-> Circular]>>)>>,
     <<Obj(<<[key |-> "n", value |-> BigInt("1")]>>), Str("m")>>,
     <<Fn>>,
     <<Obj(<<[key |-> "q", value |-> Str("say \"hi\"")],
             [key |-> "u", value |-> Undefined],
             [key |-> "a", value |-> Arr(<<Undefined, Null>>)]>>)>>}

\* new OptionalLoggerImpl(sink, level, context) on a console sink
SinkInit == InitWith(ConsoleFamily)

SinkNext ==
    \E l \in DOMAIN lcs : \E X \in LogLevel : \E args \in SinkArgLists :
        ConditionalCall(l, X, args)

SinkSpec == SinkInit /\ [][SinkNext]_vars

----------------------------------------------------------------------------
(* flush and its promises: a logger bound to a recording sink or to        *)
(* new TeeLogSink(sinks), the promises its flush calls create, and the     *)
(* settling of those promises.                                             *)

\* The sink object new TeeLogSink(sinks).
Tee == "tee"

\* A promise: the flush call that created it, what created it (a sub-sink's
\* flush, the async TeeLogSink.flush, or Promise.resolve()), its state and,
\* for the promise of TeeLogSink.flush, the array it gave to Promise.all:
\* per sub-sink the index of the promise its flush returned, or 0 for the
\* undefined that logger.flush?.() gives when the sub-sink has no flush.
NewPromise(call, of, state, array) ==
    [call |-> call, of |-> of, state |-> state, array |-> array]

\* Mutant of PromiseAll: Promise.any, fulfilled as soon as one element is.
PromiseAll_Any(ps, array) ==
    IF \E i \in DOMAIN array :
           array[i] = 0 \/ ps[array[i]].state = "fulfilled"
    THEN "fulfilled"
    ELSE IF \A i \in DOMAIN array : ps[array[i]].state = "rejected"
    THEN "rejected"
    ELSE "pending"

\* Mutant of PromiseAll: Promise.allSettled, fulfilled once every element is
\* settled, whatever the outcomes.
PromiseAll_AllSettled(ps, array) ==
    IF \A i \in DOMAIN array :
           array[i] # 0 => ps[array[i]].state # "pending"
    THEN "fulfilled"
    ELSE "pending"

\* Promise.all(array): rejected as soon as one element is rejected,
\* fulfilled once every element that is a promise is fulfilled.  An element
\* that is not a promise counts as fulfilled.
PromiseAll(ps, array) ==
    IF \E i \in DOMAIN array :
           array[i] # 0 /\ ps[array[i]].state = "rejected"
    THEN "rejected"
    ELSE IF \A i \in DOMAIN array :
                array[i] # 0 => ps[array[i]].state = "fulfilled"
    THEN "fulfilled"
    ELSE "pending"

\* Mutant of TeeFlushMap: for (const logger of this.#sinks) await
\* logger.flush?.(), which starts only the first flush before it waits.
TeeFlushMap_AwaitEach(ps, fc, array, rest, call) ==
    IF \E i \in DOMAIN rest : rest[i] \in WithFlush
    THEN LET i == CHOOSE n \in DOMAIN rest :
                      /\ rest[n] \in WithFlush
                      /\ \A k \in 1..(n - 1) : rest[k] \notin WithFlush
         IN [promises |-> Append(ps, NewPromise(call, rest[i], "pending",
                                                <<>>)),
             flushCount |-> [fc EXCEPT ![rest[i]] = @ + 1],
             array |-> [j \in DOMAIN rest |->
                           IF j = i THEN Len(ps) + 1 ELSE 0]]
    ELSE [promises |-> ps, flushCount |-> fc,
          array |-> [j \in DOMAIN rest |-> 0]]

\* this.#sinks.map(logger => logger.flush?.()): the sub-sinks are visited in
\* order; the flush of a TestLogSinkWithFlush counts the call and returns a
\* promise, which the sink settles later.
RECURSIVE TeeFlushMap(_, _, _, _, _)
TeeFlushMap(ps, fc, array, rest, call) ==
    IF rest = <<>>
    THEN [promises |-> ps, flushCount |-> fc, array |-> array]
    ELSE LET logger == Head(rest) IN
         IF logger \in WithFlush
         THEN TeeFlushMap(
                  Append(ps, NewPromise(call, logger, "pending", <<>>)),
                  [fc EXCEPT ![logger] = @ + 1],
                  Append(array, Len(ps) + 1), Tail(rest), call)
         ELSE TeeFlushMap(ps, fc, Append(array, 0), Tail(rest), call)

\* async flush() { await Promise.all(this.#sinks.map(...)); }: the call runs
\* the map, then awaits; what it returns is the promise of the async
\* function, pending until Promise.all settles.
TeeLogSinkFlush(ps, fc, call) ==
    LET m == TeeFlushMap(ps, fc, <<>>, sinks, call) IN
    [promises |-> Append(m.promises,
                         NewPromise(call, Tee, "pending", m.array)),
     flushCount |-> m.flushCount,
     result |-> Len(m.promises) + 1]

\* logSink.flush?.(), dispatched on the sink object; the result is 0 when
\* the sink has no flush.
SinkFlushCall(ps, fc, sink, call) ==
    IF sink = Tee THEN TeeLogSinkFlush(ps, fc, call)
    ELSE IF sink \in WithFlush
    THEN [promises |-> Append(ps, NewPromise(call, sink, "pending", <<>>)),
          flushCount |-> [fc EXCEPT ![sink] = @ + 1],
          result |-> Len(ps) + 1]
    ELSE [promises |-> ps, flushCount |-> fc, result |-> 0]

\* Mutant of OptionalLoggerFlush: the slot never reaches the sink
\* (() => Promise.resolve()).
OptionalLoggerFlush_NeverDelegates(ps, fc, sink, call) ==
    [promises |-> Append(ps, NewPromise(call, "Promise.resolve",
                                        "fulfilled", <<>>)),
     flushCount |-> fc,
     result |-> Len(ps) + 1]

\* this.flush = () => logSink.flush?.() ?? Promise.resolve()
OptionalLoggerFlush(ps, fc, sink, call) ==
    LET r == SinkFlushCall(ps, fc, sink, call) IN
    IF r.result # 0 THEN r
    ELSE [r EXCEPT !.promises = Append(@, NewPromise(call, "Promise.resolve",
                                                     "fulfilled", <<>>)),
                   !.result = Len(r.promises) + 1]

\* The flush calls made so far.
FlushCalls == IF promises = <<>> THEN 0 ELSE promises[Len(promises)].call

\* new OptionalLoggerImpl(sink, level) over a recording sink with flush, one
\* without, or a tee of recording sinks.
FlushInit ==
    /\ \E level \in LogLevel : \E sink \in {Tee, "l1", "l2"} :
          lcs = <<LogContext(level, NoRef, sink)>>
    /\ heap = <<>>
    /\ hist = <<Born(heap, lcs[1], <<>>)>>
    /\ messages = [s \in TestSinks |-> <<>>]
    /\ flushCount = [s \in TestSinks |-> 0]
    /\ console = [l \in LogLevel |-> <<>>]
    /\ sinks \in SinkLists
    /\ throwing = {}
    /\ last = NoOp
    /\ teeCalls = <<>>
    /\ promises = <<>>
    /\ calls = <<>>

\* logger.flush()
LoggerFlush(l) ==
    LET r == OptionalLoggerFlush(promises, flushCount, lcs[l].flush.sink,
                                 FlushCalls + 1)
    IN
    /\ FlushCalls < MaxFlushCalls
    /\ promises' = r.promises
    /\ flushCount' = r.flushCount
    /\ last' = [NoOp EXCEPT !.op = "flush", !.lc = l, !.promise = r.result]
    /\ UNCHANGED <<heap, lcs, messages, console, sinks, throwing, hist,
                   teeCalls, calls>>

\* A sink finishes a flush: the promise its flush returned is fulfilled, or
\* rejected when the flush failed.
SinkFlushSettles(p, outcome) ==
    /\ promises[p].of \in WithFlush
    /\ promises[p].state = "pending"
    /\ promises' = [promises EXCEPT ![p].state = outcome]
    /\ last' = [NoOp EXCEPT !.op = "settle", !.promise = p]
    /\ UNCHANGED <<heap, lcs, messages, flushCount, console, sinks, throwing,
                   hist, teeCalls, calls>>

\* The await of TeeLogSink.flush resumes once Promise.all has settled, and
\* the promise of the async function settles the same way.
TeeFlushSettles(p) ==
    /\ promises[p].of = Tee
    /\ promises[p].state = "pending"
    /\ PromiseAll(promises, promises[p].array) # "pending"
    /\ promises' = [promises EXCEPT
           ![p].state = PromiseAll(promises, promises[p].array)]
    /\ last' = [NoOp EXCEPT !.op = "settle", !.promise = p]
    /\ UNCHANGED <<heap, lcs, messages, flushCount, console, sinks, throwing,
                   hist, teeCalls, calls>>

FlushNext ==
    \/ \E l \in DOMAIN lcs : LoggerFlush(l)
    \/ \E p \in DOMAIN promises : \E outcome \in {"fulfilled", "rejected"} :
          SinkFlushSettles(p, outcome)
    \/ \E p \in DOMAIN promises : TeeFlushSettles(p)

FlushSpec == FlushInit /\ [][FlushNext]_vars

----------------------------------------------------------------------------
(* The claims.                                                             *)

\* The slot sets the specification gives for each level.
ClaimedSlots ==
    [error |-> {"error"},
     warn  |-> {"error", "warn"},
     info  |-> {"error", "warn", "info"},
     debug |-> {"error", "warn", "info", "debug"}]

\* error > warn > info > debug in priority; debug is the most verbose.
Verbosity == [error |-> 0, warn |-> 1, info |-> 2, debug |-> 3]
MoreVerbose(X, L) == Verbosity[X] > Verbosity[L]

LastOf(seq) == seq[Len(seq)]
RootSink == lcs[1].p_logSink

\* C1: a logger constructed at level L has a function in the slot of level
\* X if and only if X is L or a level of higher priority; every other slot
\* is undefined.
C1_SlotsMatchLevel ==
    \A l \in DOMAIN lcs : \A X \in LogLevel :
        /\ (lcs[l][X] # NoSlot) <=> (X \in ClaimedSlots[lcs[l].p_level])
        /\ (lcs[l][X] = NoSlot) <=> (X \notin ClaimedSlots[lcs[l].p_level])

C1_Witness ==
    \E l \in DOMAIN lcs :
        /\ lcs[l].p_level = "warn"
        /\ lcs[l].debug = NoSlot /\ lcs[l].info = NoSlot
        /\ lcs[l].warn # NoSlot /\ lcs[l].error # NoSlot

\* C2: for a logger at level L and a level X more verbose than L, the
\* conditional call logger.X?.(args) is skipped whether or not its arguments
\* would throw, and no sink ever holds a call of level X.
C2_DisabledCallsSkipped ==
    \A l \in DOMAIN lcs : \A X \in LogLevel :
        MoreVerbose(X, lcs[l].p_level) =>
            /\ \A argsThrow \in BOOLEAN :
                   CallOutcome(lcs[l], X, argsThrow) = "skipped"
            /\ \A s \in TestSinks : \A i \in DOMAIN messages[s] :
                   messages[s][i].level # X
            /\ console[X] = <<>>

C2_Witness ==
    \E l \in DOMAIN lcs :
        /\ lcs[l].p_level = "info"
        /\ CallOutcome(lcs[l], "debug", TRUE) = "skipped"
        /\ last.op = "call" /\ last.lc = l
        /\ Len(messages[lcs[l].p_logSink]) > 0

\* C3: each call logger.X(a1..an) of an enabled level X makes exactly one
\* sink.log call, on the logger's sink, with level X, the Context given at
\* construction and the arguments unchanged and in order.
C3_CallDelivers ==
    [][last'.op = "call" =>
          LET logger == lcs[last'.lc] IN
          /\ logger[last'.level] # NoSlot
          /\ messages' = [messages EXCEPT ![logger.p_logSink] =
                 Append(@, [level |-> last'.level,
                            context |-> logger.p_context,
                            args |-> last'.args])]
          /\ console' = console
          /\ flushCount' = flushCount]_vars

C3_Witness ==
    /\ last.op = "call" /\ last.lc = 1 /\ last.level = "info"
    /\ lcs[1].p_level = "info"
    /\ Deref(heap, lcs[1].p_context)
           = <<<<[key |-> "name", value |-> Str("alice")]>>>>
    /\ messages[RootSink]
           = <<[level |-> "info", context |-> lcs[1].p_context,
                args |-> last.args]>>

\* C4: whatever is derived from a LogContext P and logged on the derived
\* loggers, P's Context holds what it held when P was constructed, a log
\* call on P delivers that Context, and P's slot set is what it was.
C4_ReceiverUnaffected ==
    \A p \in DOMAIN lcs :
        /\ Deref(heap, lcs[p].p_context) = hist[p].context
        /\ SlotSet(lcs[p]) = hist[p].slots
        /\ (last.op = "call" /\ last.lc = p) =>
               Deref(heap, LastOf(messages[lcs[p].p_logSink]).context)
                   = hist[p].context

C4_Witness ==
    /\ Len(lcs) >= 3
    /\ lcs[1].p_context # NoRef
    /\ last.op = "call" /\ last.lc = 1

\* C5: every LogContext derived from a root at level L by a chain of
\* withContext calls, re-added keys included, has exactly the slot set of L;
\* for L = info its debug slot is undefined, a conditional debug call on it
\* is skipped and no sink holds a debug call.
C5_LevelKeptByDerivation ==
    \A l \in DOMAIN lcs :
        /\ SlotSet(lcs[l]) = ClaimedSlots[lcs[1].p_level]
        /\ lcs[1].p_level = "info" =>
               /\ lcs[l].debug = NoSlot
               /\ CallOutcome(lcs[l], "debug", FALSE) = "skipped"
               /\ \A s \in TestSinks : \A i \in DOMAIN messages[s] :
                      messages[s][i].level # "debug"

C5_Witness ==
    /\ lcs[1].p_level = "info"
    /\ Len(lcs) >= 3
    /\ hist[3].adds = <<<<"name", Undefined>>, <<"name", Str("bob")>>>>
    /\ lcs[3].debug = NoSlot
    /\ last.op = "call" /\ last.lc = 3

\* C6: every log call and every flush made on a LogContext derived from a
\* root reaches the sink given to the root (the log with the caller's own
\* Context, the flush through that sink's flush) and no other sink.
C6_SinkKeptByDerivation ==
    [][/\ last'.op = "call" =>
            /\ messages' = [messages EXCEPT ![RootSink] =
                   Append(@, [level |-> last'.level,
                              context |-> lcs[last'.lc].p_context,
                              args |-> last'.args])]
            /\ console' = console
            /\ flushCount' = flushCount
       /\ last'.op = "flush" =>
            /\ flushCount' = [s \in TestSinks |->
                   IF s = RootSink /\ s \in WithFlush
                   THEN flushCount[s] + 1 ELSE flushCount[s]]
            /\ messages' = messages
            /\ console' = console]_vars

C6_Witness ==
    /\ Len(lcs) >= 3
    /\ Len(hist[3].adds) > 1
    /\ last.op = "flush" /\ last.lc = 3
    /\ flushCount[RootSink] > 0

\* The root's Context entries, and the keys and values a right-biased merge
\* of the withContext arguments gives.
RootEntries == IF hist[1].context = NoRef THEN <<>> ELSE hist[1].context[1]

ExpectedKeys(adds) ==
    {RootEntries[i].key : i \in DOMAIN RootEntries}
        \cup {adds[j][1] : j \in DOMAIN adds}

ExpectedValue(adds, k) ==
    IF \E j \in DOMAIN adds : adds[j][1] = k
    THEN LET j == CHOOSE n \in DOMAIN adds :
                      /\ adds[n][1] = k
                      /\ \A m \in DOMAIN adds : adds[m][1] = k => m <= n
         IN adds[j][2]
    ELSE LET i == CHOOSE n \in DOMAIN RootEntries : RootEntries[n].key = k
         IN RootEntries[i].value

\* C7: after root.withContext(k1, v1)...withContext(kn, vn) the Context of
\* the result, which a log call on it delivers, has the root's keys and
\* k1..kn as its keys, each once, and maps each key to the value of its
\* latest addition, or to the root's value when it was never added again; a
\* root without a Context counts as an empty one and an omitted value is
\* undefined.
C7_RightBiasedMerge ==
    \A l \in DOMAIN lcs :
        LET adds == hist[l].adds
            E == ObjectEntries(heap, lcs[l].p_context)
        IN /\ adds # <<>> => lcs[l].p_context # NoRef
           /\ {E[i].key : i \in DOMAIN E} = ExpectedKeys(adds)
           /\ Cardinality({E[i].key : i \in DOMAIN E}) = Len(E)
           /\ \A i \in DOMAIN E : E[i].value = ExpectedValue(adds, E[i].key)
           /\ (last.op = "call" /\ last.lc = l) =>
                  LastOf(messages[RootSink]).context = lcs[l].p_context

C7_Witness ==
    /\ lcs[1].p_context # NoRef
    /\ last.op = "call"
    /\ hist[last.lc].adds = <<<<"name", Undefined>>, <<"name", Str("bob")>>>>
    /\ Deref(heap, LastOf(messages[RootSink]).context)
           = <<<<[key |-> "name", value |-> Str("bob")]>>>>

\* The token of a key and its value, and a chain of additions whose keys
\* differ from each other and from the root's.
ClaimedToken(k, v) ==
    IF v = Undefined THEN Str(k) ELSE Str(k \o "=" \o v.str)

DistinctKeys(adds) ==
    /\ \A i, j \in DOMAIN adds : i # j => adds[i][1] # adds[j][1]
    /\ \A i \in DOMAIN adds : \A n \in DOMAIN RootEntries :
           adds[i][1] # RootEntries[n].key

\* C8: with a console sink, a log call on a LogContext derived by a chain of
\* withContext calls with pairwise distinct keys writes the tokens of the
\* root Context, then one token per derived key in derivation order, then
\* the message arguments.
C8_TokensInDerivationOrder ==
    (last.op = "call" /\ DistinctKeys(hist[last.lc].adds)) =>
        LET adds == hist[last.lc].adds IN
        LastOf(console[last.level])
            = [n \in DOMAIN RootEntries |->
                   ClaimedToken(RootEntries[n].key, RootEntries[n].value)]
              \o [i \in DOMAIN adds |-> ClaimedToken(adds[i][1], adds[i][2])]
              \o last.args

\* C9: after any sequence of tee.log calls every sub-sink of the tee has
\* recorded exactly the sequence of the tee.log calls, each call once.
C9_TeeFanOut ==
    \A i \in DOMAIN sinks : messages[sinks[i]] = teeCalls

\* C10: when the log of a sub-sink throws, the same tee.log call is still
\* delivered to every sub-sink later in the list.
C10_TeeFailureIsolation ==
    last.op = "tee.log" =>
        \A i \in DOMAIN sinks :
            (\E j \in DOMAIN sinks : j < i /\ sinks[j] \in throwing) =>
                /\ Len(messages[sinks[i]]) = Len(teeCalls)
                /\ LastOf(messages[sinks[i]])
                       = [level |-> last.level, context |-> last.context,
                          args |-> last.args]

\* The promises of the sub-sinks' flushes that a TeeLogSink.flush awaits.
SubFlushes(p) ==
    {promises[p].array[i] : i \in DOMAIN promises[p].array} \ {0}

\* C11 as stated: TeeLogSink.flush does not settle before the flush of every
\* sub-sink that defines flush has completed, and nothing else delays it:
\* once those flushes have completed (at once, when no sub-sink defines
\* flush) it can complete.
C11_TeeFlushWaitsForAll ==
    \A p \in DOMAIN promises :
        promises[p].of = Tee =>
            LET done == \A q \in SubFlushes(p) :
                            promises[q].state # "pending"
            IN /\ promises[p].state # "pending" => done
               /\ (promises[p].state = "pending" /\ done) =>
                      PromiseAll(promises, promises[p].array) # "pending"

\* C11, amended: TeeLogSink.flush is not fulfilled before the flush of every
\* sub-sink that defines flush is fulfilled, and is rejected only when one of
\* them is rejected (then at once, whatever the others' state); the sub-sinks
\* without flush are not waited for: once the flushes of the others are
\* fulfilled (at once, when there are none) it can be fulfilled.
C11_TeeFlushFulfilledAfterAll ==
    \A p \in DOMAIN promises :
        promises[p].of = Tee =>
            LET subs == SubFlushes(p) IN
            /\ {promises[q].of : q \in subs} =
                   {sinks[i] : i \in DOMAIN sinks} \cap WithFlush
            /\ promises[p].state = "fulfilled" =>
                   \A q \in subs : promises[q].state = "fulfilled"
            /\ promises[p].state = "rejected" =>
                   \E q \in subs : promises[q].state = "rejected"
            /\ (\A q \in subs : promises[q].state = "fulfilled") =>
                   PromiseAll(promises, promises[p].array) = "fulfilled"

\* C11 happens: the flush of the tee of l1 (flush), l2 (no flush) and l3
\* (flush) is fulfilled, after the flushes of l1 and l3 were.
C11_Witness ==
    /\ sinks = <<"l1", "l2", "l3">>
    /\ last.op = "settle"
    /\ promises[last.promise].of = Tee
    /\ promises[last.promise].state = "fulfilled"
    /\ Cardinality(SubFlushes(last.promise)) = 2

\* C12: every logger has a flush slot whatever its level; a call of it calls
\* the sink's flush exactly once and returns the sink's own promise when the
\* sink defines flush, and otherwise returns an already fulfilled promise
\* and leaves the sink untouched.
C12_FlushDelegates ==
    [][ /\ \A l \in DOMAIN lcs : lcs[l].flush.sink = lcs[l].p_logSink
        /\ last'.op = "flush" =>
              LET sink == lcs[last'.lc].flush.sink
                  r == last'.promise
                  new == (DOMAIN promises') \ (DOMAIN promises)
              IN /\ r \in new
                 /\ messages' = messages
                 /\ IF sink \in WithFlush
                    THEN /\ flushCount' = [flushCount EXCEPT ![sink] = @ + 1]
                         /\ new = {r}
                         /\ promises'[r].of = sink
                    ELSE IF sink = Tee
                    THEN /\ {q \in new : promises'[q].of = Tee} = {r}
                         /\ promises'[r].state = "pending"
                    ELSE /\ flushCount' = flushCount
                         /\ new = {r}
                         /\ promises'[r].of = "Promise.resolve"
                         /\ promises'[r].state = "fulfilled"
      ]_vars

\* C12 happens: a logger at level error had its flush called, on a sink with
\* flush, and the promise it returned was settled by the sink.
C12_Witness ==
    /\ last.op = "settle"
    /\ promises[last.promise].of = "l1"
    /\ lcs[1].p_logSink = "l1"
    /\ lcs[1].p_level = "error"
    /\ flushCount["l1"] = 1

\* The tokens of the latest write on the stream of the latest call, and the
\* tokens of that write that stand for the message arguments.
LastWrite == LastOf(console[last.level])
ArgToken(i) == LastWrite[Len(LastWrite) - Len(last.args) + i]

\* A call of a slot of the root logger has reached one of these sinks.
CalledOn(S) == last.op = "call" /\ RootSink \in S

\* C13: consoleLogSink.log and nodeConsoleLogSink.log return normally for
\* every argument value, a cyclic object and an object with a BigInt field
\* included, and the call writes its line.
C13_NormalizerNeverThrows ==
    CalledOn(ConsoleSinks \cup NodeConsoleSinks) =>
        /\ last.outcome = "called"
        /\ console[last.level] # <<>>

\* The record the specification gives for an Error: name, message and stack
\* and, when the Error has a cause, the cause projected the same way.
RECURSIVE Projection(_)
Projection(e) ==
    Obj(<<[key |-> "name", value |-> e.name],
          [key |-> "message", value |-> e.message],
          [key |-> "stack", value |-> e.stack]>>
        \o (IF e.cause = <<>> THEN <<>>
            ELSE <<[key |-> "cause", value |-> Projection(e.cause[1])]>>))

IsError(v) == v.type = "object" /\ v.class = "Error"

\* C14: an Error argument is written as a string that parses to the record
\* of its name, message and stack and, when it has a cause, a cause field
\* that is the same record of the cause, down the whole chain; without a
\* cause there is no cause field.
C14_ErrorChainSurvives ==
    (CalledOn(ConsoleSinks \cup NodeConsoleSinks) /\ last.outcome = "called")
        => \A i \in DOMAIN last.args :
              IsError(last.args[i]) =>
                  /\ ArgToken(i).type = "string"
                  /\ JSONparse(ArgToken(i).str) = Projection(last.args[i])

\* C14 happens: an Error with a chain of two causes was logged.
C14_Witness ==
    /\ CalledOn(NodeConsoleSinks)
    /\ last.outcome = "called"
    /\ last.args = <<ErrorC>>
    /\ ErrorC.cause[1].cause[1] = ErrorB

IsPrimitive(v) ==
    \/ v.type \in {"string", "number", "boolean", "undefined", "symbol",
                    "bigint"}
    \/ v = Null

\* C15: a primitive argument (string, number, boolean, null, undefined,
\* symbol, BigInt) is written by consoleLogSink and nodeConsoleLogSink as the
\* same value, and JSON.stringify is called for no primitive argument.
C15_PrimitivesPassThrough ==
    CalledOn(ConsoleSinks \cup NodeConsoleSinks) =>
        /\ \A j \in DOMAIN last.spy : ~IsPrimitive(last.spy[j])
        /\ last.outcome = "called" =>
               \A i \in DOMAIN last.args :
                   IsPrimitive(last.args[i]) => ArgToken(i) = last.args[i]

\* C15 happens: null, undefined, a symbol and a BigInt were logged, and, in
\* another call, a string, a boolean and a number next to two objects.
C15_Witness ==
    /\ CalledOn(ConsoleSinks)
    /\ last.outcome = "called"
    /\ \/ last.args = <<Null, Undefined, Sym("Symbol(s)"), BigInt("1")>>
       \/ /\ Len(last.args) = 5
          /\ Len(last.spy) = 2

\* What the specification calls the normalized arguments of a call.
NormalizedArgs(args) == [i \in DOMAIN args |-> normalizeArgument(args[i]).value]

\* The step is a call of a slot of the root logger, bound to a sink of S.
CallOn(S) == last'.op = "call" /\ RootSink \in S

\* The step writes exactly once, these tokens, on the stream of the call's
\* level, and nothing on the other streams.
WritesOnce(tokens) ==
    /\ console'[last'.level] = Append(console[last'.level], tokens)
    /\ \A Y \in LogLevel \ {last'.level} : console'[Y] = console[Y]

\* C16: a call of consoleLogSink.log makes exactly one write, on the stream
\* of its level and on no other, of the Context tokens followed by the
\* normalized arguments in order.
C16_ConsoleOneWritePerCall ==
    [][ CallOn(ConsoleSinks) =>
            WritesOnce(stringified(heap, lcs[1].p_context)
                           \o NormalizedArgs(last'.args))
      ]_vars

\* The tags the specification gives for the levels.
ClaimedTag == [debug |-> "DBG", info |-> "INF", warn |-> "WRN", error |-> "ERR"]

\* C17: a call of nodeConsoleLogSink.log makes exactly one write, on the
\* stream of its level: the tag of the level, then the Context tokens, then
\* the normalized arguments, that is the tag followed by what consoleLogSink
\* writes for the same call.
C17_NodeConsoleTagThenSame ==
    [][ CallOn(NodeConsoleSinks) =>
            /\ WritesOnce(<<Str(ClaimedTag[last'.level])>>
                              \o stringified(heap, lcs[1].p_context)
                              \o NormalizedArgs(last'.args))
            /\ Tail(LastOf(console'[last'.level])) =
                   LastOf(consoleLogSinkLog(console, heap, last'.level,
                              lcs[1].p_context, last'.args
                          ).console[last'.level])
      ]_vars

C19_DefaultLogContext ==
    [][ lcs[1] = LogContext(Omitted, NoRef, Omitted) =>
            /\ lcs[1].debug = NoSlot
            /\ \A X \in {"info", "warn", "error"} : lcs[1][X] # NoSlot
            /\ (last'.op = "call" /\ last'.lc = 1) =>
                   /\ WritesOnce(last'.args)
                   /\ messages' = messages
      ]_vars

\* C19 happens: new LogContext() was called at warn and console.warn got the
\* arguments.
C19_Witness ==
    /\ lcs[1] = LogContext(Omitted, NoRef, Omitted)
    /\ last.op = "call"
    /\ last.lc = 1
    /\ last.level = "warn"
    /\ console["warn"] = <<last.args>>

\* C20: constructing a logger with a level that is none of debug, info, warn
\* and error raises an error, so no logger with such a level exists.
C20_UnknownLevelRejected ==
    \A l \in DOMAIN lcs : lcs[l].p_level \in LogLevel

\* The withContext arguments without the last pair, the entries a LogContext
\* was constructed with, and the keys of a sequence of entries.
Front(seq) == SubSeq(seq, 1, Len(seq) - 1)
BornEntries(l) == IF hist[l].context = NoRef THEN <<>> ELSE hist[l].context[1]
KeysOf(E) == {E[i].key : i \in DOMAIN E}
ValueOf(E, k) == E[CHOOSE i \in DOMAIN E : E[i].key = k].value

\* A and B are derived from the same LogContext P by withContext calls with
\* different keys.
Siblings(p, a, b) ==
    /\ hist[a].adds # <<>> /\ hist[b].adds # <<>>
    /\ Front(hist[a].adds) = hist[p].adds
    /\ Front(hist[b].adds) = hist[p].adds
    /\ LastOf(hist[a].adds)[1] # LastOf(hist[b].adds)[1]

TwinInit == InitWithLevels({"l1", "l2"}, {"warn", Omitted})
TwinSpec == TwinInit /\ [][Next]_vars

\* new OptionalLoggerImpl(sink, level, context) for the level, Context and
\* sink that LogContext l holds, and the level slots and flush of a logger.
Twin(l) ==
    OptionalLoggerImpl(lcs[l].p_logSink, lcs[l].p_level, lcs[l].p_context)

LoggerSlots(logger) ==
    [debug |-> logger.debug, info |-> logger.info, warn |-> logger.warn,
     error |-> logger.error, flush |-> logger.flush]

RenderContexts ==
    {<<>>}
    \cup {<<[key |-> "k", value |-> v]>> :
             v \in {Undefined, Null, Str(""), Num("0"), Bool("false"),
                    BigInt("1"), Obj(<<>>), Sym("Symbol(s)")}}
    \cup {<<[key |-> "a", value |-> Str("x")],
            [key |-> "b", value |-> Undefined],
            [key |-> "c", value |-> Null]>>}

\* LogContexts with such a Context, or none, on the console sink and on the
\* FormatLogger that formats to its arguments.
RenderInit ==
    InitFrom({"consoleLogSink", "FormatLogger(nop)"}, {"info"},
             RenderContexts)
RenderSpec == RenderInit /\ [][Next]_vars

\* The default string form of a value as String(v) gives it, and the token
\* the specification gives for a key and its value.
DefaultString(v) ==
    IF v = Null THEN "null"
    ELSE IF v.type = "object" THEN "[object Object]"
    ELSE v.str

ClaimedEntryToken(k, v) ==
    IF v = Undefined THEN Str(k) ELSE Str(k \o "=" \o DefaultString(v))

HasSymbolValue(E) == \E i \in DOMAIN E : E[i].value.type = "symbol"

\* C23: a log call on a console-family sink writes one token per entry of
\* the Context, in the order of its entries, before the arguments: the key
\* alone when the value is undefined, key=value with the value's default
\* string form for every other value, null and '' included; an absent and an
\* empty Context give no token.
C23_ContextEntryRendering ==
    last.op = "call" =>
        LET E == ObjectEntries(heap, lcs[last.lc].p_context) IN
        /\ last.outcome = "called"
        /\ LastOf(console[last.level])
               = [i \in DOMAIN E |-> ClaimedEntryToken(E[i].key, E[i].value)]
                 \o last.args

\* LogContexts that share the recording sink l1: a root at level info and
\* what withContext derives from it, with several log calls.
OrderInit == InitFrom({"l1"}, {"info"}, CallerContexts)

OrderNext ==
    \/ \E l \in DOMAIN lcs : WithContext(l, "name", Str("bob"))
    \/ \E l \in DOMAIN lcs : \E X \in LogLevel : \E args \in ArgLists :
          CallWithin(l, X, <<Str(X)>> \o args, MaxOrderedCalls)

OrderSpec == OrderInit /\ [][OrderNext]_vars

\* What the sink receives from a call of the history.
Received(c) ==
    [level |-> c.level, context |-> lcs[c.lc].p_context, args |-> c.args]

\* C24: when a log call of an enabled level returns, the sink has received
\* it: at every moment the sink shared by several LogContexts holds exactly
\* the calls made so far, in program order, each once and with its caller's
\* level, Context and arguments, and nothing is written anywhere else.
C24_ProgramOrderDelivery ==
    /\ Len(messages["l1"]) = Len(calls)
    /\ \A i \in DOMAIN calls : messages["l1"][i] = Received(calls[i])
    /\ \A s \in TestSinks \ {"l1"} : messages[s] = <<>>
    /\ \A X \in LogLevel : console[X] = <<>>
    /\ \A i \in DOMAIN calls : lcs[calls[i].lc][calls[i].level] # NoSlot

C24_Witness ==
    /\ Len(calls) = 2
    /\ calls[1].lc = 2 /\ calls[2].lc = 1
    /\ calls[1].level = "error" /\ calls[2].level = "info"
    /\ messages["l1"][1].context = lcs[2].p_context
    /\ messages["l1"][2].context = lcs[1].p_context
    /\ messages["l1"][1].args[1] = Str("error")
    /\ messages["l1"][2].args[1] = Str("info")

\* What JavaScript lets the holders of a Context object do: nothing freezes
\* or copies the object, so the caller that passed it to the constructor,
\* and a sink that received it in log, can assign to its properties.
ContextWrites == {<<"name", Str("eve")>>}

\* ctx[key] = value by the caller, on the object given to new LogContext.
CallerWrites(key, value) ==
    /\ lcs[1].p_context # NoRef
    /\ heap' = [heap EXCEPT ![lcs[1].p_context[1]] =
                   CreateDataProperty(@, key, value)]
    /\ last' = [NoOp EXCEPT !.op = "caller.write", !.key = key,
                            !.value = value]
    /\ UNCHANGED <<lcs, messages, flushCount, console, sinks, throwing, hist,
                   teeCalls, promises, calls>>

\* context[key] = value by recording sink s, on the Context object of the
\* i-th call it received.
SinkWrites(s, i, key, value) ==
    /\ messages[s][i].context # NoRef
    /\ heap' = [heap EXCEPT ![messages[s][i].context[1]] =
                   CreateDataProperty(@, key, value)]
    /\ last' = [NoOp EXCEPT !.op = "sink.write", !.key = key,
                            !.value = value]
    /\ UNCHANGED <<lcs, messages, flushCount, console, sinks, throwing, hist,
                   teeCalls, promises, calls>>

MutationInit == InitFrom({"l1"}, {"info"}, CallerContexts)

MutationNext ==
    \/ \E l \in DOMAIN lcs : \E kv \in WithContextArgs :
          WithContext(l, kv[1], kv[2])
    \/ \E l \in DOMAIN lcs : \E X \in LogLevel : \E args \in ArgLists :
          ConditionalCall(l, X, args)
    \/ \E l \in DOMAIN lcs : Flush(l)
    \/ \E kv \in ContextWrites : CallerWrites(kv[1], kv[2])
    \/ \E s \in TestSinks : \E i \in DOMAIN messages[s] :
       \E kv \in ContextWrites : SinkWrites(s, i, kv[1], kv[2])

MutationSpec == MutationInit /\ [][MutationNext]_vars

\* C25: whatever happens after a LogContext is constructed (log calls, flush,
\* withContext on it or on its relatives, a sink writing to the Context
\* object it received, the caller writing to the Context object it passed
\* to the constructor), the LogContext holds, and a log call on it delivers,
\* the key/value pairs it was constructed with.
C25_ContextNeverChanges ==
    \A l \in DOMAIN lcs :
        /\ Deref(heap, lcs[l].p_context) = hist[l].context
        /\ (last.op = "call" /\ last.lc = l) =>
               Deref(heap, LastOf(messages[lcs[l].p_logSink]).context)
                   = hist[l].context

\* The sub-sinks of the tee that define flush, in list order, and how often
\* a sink is in the list.
DefinesFlush(s) == s \in WithFlush
Flushable == SelectSeq(sinks, DefinesFlush)
Occurrences(s) == Cardinality({i \in DOMAIN sinks : sinks[i] = s})

\* C26: a call of TeeLogSink.flush calls flush once on every sub-sink that
\* defines it, in list order, and has started all of them when it begins to
\* wait: in the step of the call every such flush has been counted and has
\* returned its promise, all still pending, and the tee's promise waits on
\* exactly these.
C26_TeeFlushStartsAll ==
    [][(last'.op = "flush" /\ lcs[last'.lc].flush.sink = Tee) =>
          LET n == Len(promises)
              k == Len(Flushable)
          IN /\ Len(promises') = n + k + 1
             /\ \A i \in 1..n : promises'[i] = promises[i]
             /\ \A i \in 1..k :
                    /\ promises'[n + i].of = Flushable[i]
                    /\ promises'[n + i].state = "pending"
             /\ promises'[n + k + 1].of = Tee
             /\ promises'[n + k + 1].state = "pending"
             /\ last'.promise = n + k + 1
             /\ {promises'[n + k + 1].array[i] : i \in DOMAIN sinks} \ {0}
                    = (n + 1)..(n + k)
             /\ flushCount' = [s \in TestSinks |->
                    IF s \in WithFlush THEN flushCount[s] + Occurrences(s)
                    ELSE flushCount[s]]]_vars

C26_Witness ==
    /\ sinks = <<"l1", "l2", "l3">>
    /\ Len(promises) = 3
    /\ promises[1].of = "l1" /\ promises[1].state = "pending"
    /\ promises[2].of = "l3" /\ promises[2].state = "pending"
    /\ promises[3].of = Tee /\ promises[3].array = <<1, 0, 2>>
    /\ flushCount["l1"] = 1 /\ flushCount["l3"] = 1

\* C28: once the flush of a sub-sink has been rejected, the promise of the
\* TeeLogSink.flush that called it is never fulfilled: it is rejected, or
\* still pending with rejection as the only way it can settle.  The flush of
\* a logger bound to the tee returns that very promise, so the logger
\* reports the same failure.
C28_FlushFailurePropagates ==
    /\ \A p \in DOMAIN promises :
           (/\ promises[p].of = Tee
            /\ \E q \in SubFlushes(p) : promises[q].state = "rejected") =>
               /\ promises[p].state # "fulfilled"
               /\ promises[p].state = "pending" =>
                      PromiseAll(promises, promises[p].array) = "rejected"
    /\ (last.op = "flush" /\ lcs[last.lc].flush.sink = Tee) =>
           /\ last.promise = Len(promises)
           /\ promises[last.promise].of = Tee
           /\ promises[last.promise].call = FlushCalls

C28_Witness ==
    /\ sinks = <<"l1", "l2", "l3">>
    /\ lcs[1].flush.sink = Tee
    /\ Len(promises) = 3
    /\ promises[1].state = "fulfilled"
    /\ promises[2].of = "l3" /\ promises[2].state = "rejected"
    /\ promises[3].of = Tee /\ promises[3].state = "rejected"

\* Whether sub is seq with some of its elements left out.
RECURSIVE IsSubsequence(_, _)
IsSubsequence(sub, seq) ==
    IF sub = <<>> THEN TRUE
    ELSE IF seq = <<>> THEN FALSE
    ELSE IF Head(sub) = Head(seq) THEN IsSubsequence(Tail(sub), Tail(seq))
    ELSE IsSubsequence(sub, Tail(seq))

\* C27: one tee.log call invokes the sub-sinks in constructor order, each
\* after the one before it has returned (the sub-sinks it called are an
\* initial part of the list, in list order, and each holds the call as its
\* latest); and the calls are delivered one after the other, so every
\* sub-sink holds tee.log calls in the order in which they were made.
C27_TeeDeliveryOrder ==
    /\ last.op = "tee.log" =>
           /\ \E n \in 0..Len(sinks) : last.order = SubSeq(sinks, 1, n)
           /\ \A i \in DOMAIN last.order :
                  LastOf(messages[last.order[i]]) = LastOf(teeCalls)
           /\ \A s \in TestSinks :
                  (\A i \in DOMAIN last.order : last.order[i] # s) =>
                      \/ messages[s] = <<>>
                      \/ LastOf(messages[s]) # LastOf(teeCalls)
                      \/ Len(messages[s]) < Len(teeCalls)
    /\ \A s \in TestSinks : IsSubsequence(messages[s], teeCalls)

C27_Witness ==
    /\ sinks = <<"l2", "l3", "l1">>
    /\ throwing = {}
    /\ last.op = "tee.log" /\ last.order = <<"l2", "l3", "l1">>
    /\ Len(teeCalls) = 2
    /\ teeCalls[1] # teeCalls[2]
    /\ \A s \in TestSinks : messages[s] = teeCalls

C30_NonPrimitivesBecomeStrings ==
    (CalledOn(ConsoleSinks \cup NodeConsoleSinks) /\ last.outcome = "called")
        => \A i \in DOMAIN last.args :
              ~IsPrimitive(last.args[i]) =>
                  /\ normalizeArgument(last.args[i]).value.type = "string"
                  /\ ArgToken(i).type = "string"
                  /\ ArgToken(i) = normalizeArgument(last.args[i]).value
                  /\ last.args[i]
                         = Obj(<<[key |-> "b", value |-> Num("1")]>>)
                       => ArgToken(i) = Str("{\"b\":1}")
                  /\ last.args[i] = Arr(<<Num("2"), Num("3")>>)
                       => ArgToken(i) = Str("[2,3]")

====
